---- MODULE Spec2Model ----
(***************************************************************************)
(* seed-split: binary fields GF(2^128) and GF(2^256), Shamir sharing by    *)
(* Lagrange interpolation at zero, and the command line around them.       *)
(*                                                                         *)
(* A u64 is the set of the positions of its set bits (bit 0 is the least   *)
(* significant), so ^ is symmetric difference and | is union.  A BPoly<N>  *)
(* is the sequence of its N limbs, limb i of the code at position i + 1.   *)
(* A field element is its BPoly; the limb count tells the field.           *)
(*                                                                         *)
(* TLC evaluates operator arguments and LET definitions on demand.  The    *)
(* loops below therefore halve their index range and compare each          *)
(* intermediate value with itself before going on (v = v is TRUE and makes *)
(* TLC compute v): the value computed is the loop's, the evaluation stays  *)
(* shallow.                                                                *)
(***************************************************************************)
EXTENDS Integers, Sequences, FiniteSets, TLC

(***************************************************************************)
(* u64 arithmetic                                                          *)
(***************************************************************************)
LimbBits == 64

\* a ^ b
Xor(x, y) == (x \ y) \cup (y \ x)

\* a << c on 64 bits: the bits pushed past bit 63 are lost.
Shl(x, c) == {b + c : b \in x \cap (0..(LimbBits - 1 - c))}

\* a >> c
Shr(x, c) == {b - c : b \in x \cap (c..(LimbBits - 1))}

\* The u64 with value v, for 0 <= v < 2^30.
U64(v) == {b \in 0..29 : (v \div (2 ^ b)) % 2 = 1}

\* u64::from_le_bytes(chunk): byte k holds bits 8k .. 8k+7.
from_le_bytes(chunk) ==
  UNION {{8 * (k - 1) + b : b \in U64(chunk[k])} : k \in 1..Len(chunk)}

RECURSIVE ByteValue(_)
ByteValue(bits) ==
  IF bits = {} THEN 0
  ELSE LET b == CHOOSE e \in bits : TRUE IN (2 ^ b) + ByteValue(bits \ {b})

\* x.to_le_bytes()
to_le_bytes(x) ==
  [k \in 1..(LimbBits \div 8) |->
     ByteValue({b \in 0..7 : (8 * (k - 1) + b) \in x})]

(***************************************************************************)
(* BPoly<N>                                                                *)
(***************************************************************************)
\* Makes TLC build the sequence once instead of at every use.
Limbs(f) == f @@ <<>>

BPoly_zero(N) == Limbs([i \in 1..N |-> {}])

BPoly_one(N) == Limbs([i \in 1..N |-> IF i = 1 THEN {0} ELSE {}])

\* shift(&mut self, start, count): <<the shifted data, the returned top>>.
\* Limb i takes the bits limb i - 1 pushed out; limb 0 takes start.
BPoly_shift(self, start, count) ==
  <<Limbs([i \in 1..Len(self) |->
             Shl(self[i], count)
               \cup (IF i = 1 THEN start
                     ELSE Shr(self[i - 1], LimbBits - count))]),
    Shr(self[Len(self)], LimbBits - count)>>

\* self += rhs
BPoly_add(self, rhs) == Limbs([i \in 1..Len(self) |-> Xor(self[i], rhs[i])])

\* subtle's conditional_select(a, b, choice): a for choice 0, b for choice 1.
conditional_select(a, b, choice) == IF choice = 1 THEN b ELSE a

\* The body of "for j in 0..N" of BPoly::mul, for one j: the window of N
\* limbs starting at limb j of (out_lo, out_hi) gets to_add added.
MulInner(self, rhs, out, k, j) ==
  LET N == Len(self)
      out_hi == out[1]
      out_lo == out[2]
      to_add == conditional_select(BPoly_zero(N), rhs,
                                   IF k \in self[j + 1] THEN 1 ELSE 0)
      view0 == SubSeq(out_lo, j + 1, N) \o SubSeq(out_hi, 1, j)
      view == BPoly_add(view0, to_add)
  IN <<SubSeq(view, N - j + 1, N) \o SubSeq(out_hi, j + 1, N),
       SubSeq(out_lo, 1, j) \o SubSeq(view, 1, N - j)>>

\* "for j in 0..N", for the j from first to last.
RECURSIVE MulLimbs(_, _, _, _, _, _)
MulLimbs(self, rhs, out, k, first, last) ==
  IF first > last THEN out
  ELSE IF first = last THEN MulInner(self, rhs, out, k, first)
  ELSE LET mid == (first + last) \div 2
           half == MulLimbs(self, rhs, out, k, first, mid)
       IN IF half = half THEN MulLimbs(self, rhs, half, k, mid + 1, last)
          ELSE half

\* The body of "for k in (0..64).rev()" for one k.
MulBit(self, rhs, out, k) ==
  LET r == MulLimbs(self, rhs, out, k, 0, Len(self) - 1)
  IN IF k # 0
     THEN LET lo == BPoly_shift(r[2], {}, 1)
              hi == BPoly_shift(r[1], lo[2], 1)
          IN <<hi[1], lo[1]>>
     ELSE r

\* "for k in (0..64).rev()", for the k from LimbBits - 1 - first down to
\* LimbBits - 1 - last.
RECURSIVE MulBits(_, _, _, _, _)
MulBits(self, rhs, out, first, last) ==
  IF first > last THEN out
  ELSE IF first = last THEN MulBit(self, rhs, out, LimbBits - 1 - first)
  ELSE LET mid == (first + last) \div 2
           half == MulBits(self, rhs, out, first, mid)
       IN IF half = half THEN MulBits(self, rhs, half, mid + 1, last)
          ELSE half

\* impl ops::Mul for BPoly<N>: <<out_hi, out_lo>>.
BPoly_mul(self, rhs) ==
  MulBits(self, rhs, <<BPoly_zero(Len(self)), BPoly_zero(Len(self))>>,
          0, LimbBits - 1)

(***************************************************************************)
(* GF128 and GF256                                                         *)
(***************************************************************************)
\* GF128::reduce, modulo z^128 + z^7 + z^2 + z + 1.  What a limb h of hi
\* adds to the limb of lo below it ...
GF128_fold(h) == Xor(Xor(Shl(h, 7), Shl(h, 2)), Xor(Shl(h, 1), h))

\* ... and the bits of h these shifts push into the next limb.
GF128_carry(h) ==
  Xor(Xor(Shr(h, 64 - 7), Shr(h, 64 - 2)), Shr(h, 64 - 1))

\* "for i in 0..2": lo after the loop.
GF128_reduce_loop(hi, lo) ==
  Limbs([i \in 1..2 |->
           IF i > 1
           THEN Xor(Xor(lo[i], GF128_fold(hi[i])), GF128_carry(hi[i - 1]))
           ELSE Xor(lo[i], GF128_fold(hi[i]))])

GF128_reduce_no_top(hi, lo) == GF128_reduce_loop(hi, lo)

GF128_reduce(hi, lo) ==
  LET lo1 == GF128_reduce_loop(hi, lo)
      top == GF128_carry(hi[2])
  IN Limbs([lo1 EXCEPT ![1] = Xor(lo1[1], GF128_fold(top))])

\* GF256::reduce, modulo z^256 + z^10 + z^5 + z^2 + 1.
GF256_fold(h) == Xor(Xor(Shl(h, 10), Shl(h, 5)), Xor(Shl(h, 2), h))

GF256_carry(h) ==
  Xor(Xor(Shr(h, 64 - 10), Shr(h, 64 - 5)), Shr(h, 64 - 2))

\* "for i in 0..4": lo after the loop.
GF256_reduce_loop(hi, lo) ==
  Limbs([i \in 1..4 |->
           IF i > 1
           THEN Xor(Xor(lo[i], GF256_fold(hi[i])), GF256_carry(hi[i - 1]))
           ELSE Xor(lo[i], GF256_fold(hi[i]))])

GF256_reduce(hi, lo) ==
  LET lo1 == GF256_reduce_loop(hi, lo)
      top == GF256_carry(hi[4])
  IN Limbs([lo1 EXCEPT ![1] = Xor(lo1[1], GF256_fold(top))])

\* The limb count of each field.
FieldLimbs(F) == IF F = "GF128" THEN 2 ELSE 4
Fields == {"GF128", "GF256"}
FieldOf(x) == IF Len(x) = 2 THEN "GF128" ELSE "GF256"

\* self * rhs: Self::reduce(self.0 * rhs.0).
Mul(self, rhs) ==
  LET p == BPoly_mul(self, rhs)
  IN IF Len(self) = 2 THEN GF128_reduce(p[1], p[2])
     ELSE GF256_reduce(p[1], p[2])

\* self + rhs, and self - rhs = self + -rhs with -rhs = rhs.
Add(self, rhs) == BPoly_add(self, rhs)
Neg(self) == self
Sub(self, rhs) == Add(self, Neg(rhs))

one(F) == BPoly_one(FieldLimbs(F))
zero(F) == BPoly_zero(FieldLimbs(F))

\* From<u64>: limb 0 is x, the other limbs are zero.
from_u64(F, x) == Limbs([i \in 1..FieldLimbs(F) |-> IF i = 1 THEN x ELSE {}])

\* From<[u8; 16]> and From<[u8; 32]>: limb i from bytes 8i .. 8i+7.
from_bytes(data) ==
  Limbs([i \in 1..(Len(data) \div 8) |->
           from_le_bytes(SubSeq(data, 8 * (i - 1) + 1, 8 * i))])

RECURSIVE Concat(_)
Concat(ss) == IF ss = <<>> THEN <<>> ELSE Head(ss) \o Concat(Tail(ss))

\* Into<[u8; 16]> and Into<[u8; 32]>.
into_bytes(self) == Concat([i \in 1..Len(self) |-> to_le_bytes(self[i])])

\* The body of the loop of exp_two_count_minus_two.
ExpBody(acc, x) == Mul(Mul(acc, acc), x)

ExpTail_forgotten(acc) == acc

\* The statement after the loop.
ExpTail(acc) == Mul(acc, acc)

\* The count inverse() passes: the degree of the field.
ExpCount(F) == IF F = "GF128" THEN 128 ELSE 256

(***************************************************************************)
(* Polynomial<F>, Index, split and reconstruct                             *)
(***************************************************************************)
\* Polynomial::random: the zero coefficient, then degree drawn elements;
\* draws[i] is the i-th element the generator gives.
Polynomial_random(draws, zero_value, degree) ==
  <<zero_value>> \o [i \in 1..degree |-> draws[i]]

\* "for &c in coefficients.iter().rev().skip(1)": acc = acc * at + c, for
\* the coefficients from the first-th to the last-th counted from the end.
RECURSIVE EvaluateLoop(_, _, _, _, _)
EvaluateLoop(coefficients, at, acc, first, last) ==
  IF first > last THEN acc
  ELSE IF first = last
  THEN Add(Mul(acc, at), coefficients[Len(coefficients) - first])
  ELSE LET mid == (first + last) \div 2
           half == EvaluateLoop(coefficients, at, acc, first, mid)
       IN IF half = half
          THEN EvaluateLoop(coefficients, at, half, mid + 1, last)
          ELSE half

\* Polynomial::evaluate
evaluate(coefficients, at) ==
  EvaluateLoop(coefficients, at, coefficients[Len(coefficients)],
               1, Len(coefficients) - 1)

\* A variant without the + 1.
to_field_from_zero(Fd, index) == from_u64(Fd, U64(index))

\* Index::to_field: F::from(u64::from(self.0) + 1).
to_field(Fd, index) == from_u64(Fd, U64(index + 1))

\* sharing.threshold - 1 on u8, as a build without overflow checks does it.
Degree_u8(threshold) == (threshold - 1) % 256

\* lagrange::split: the shares (Index(i), poly.evaluate(index.to_field()))
\* for i in 0..count.
split(Fd, draws, secret, threshold, count) ==
  LET poly == Polynomial_random(draws, secret, Degree_u8(threshold))
  IN [n \in 1..count |-> <<n - 1, evaluate(poly, to_field(Fd, n - 1))>>]

\* EvaluationPoints::from_shares
Points(Fd, list) == [n \in 1..Len(list) |-> to_field(Fd, list[n][1])]
Heights(list) == [n \in 1..Len(list) |-> list[n][2]]

\* Variants of the loop body: without the "continue", without the
\* subtraction of points[j], skipping every point equal to points[j], and
\* subtracting the first point instead.
LagrangeBody_no_skip(points, jj, tb, i) ==
  <<Mul(tb[1], points[i]), Mul(tb[2], Sub(points[i], points[jj]))>>

LagrangeBody_no_sub(points, jj, tb, i) ==
  IF i = jj THEN tb
  ELSE <<Mul(tb[1], points[i]), Mul(tb[2], points[i])>>

LagrangeBody_skip_equal(points, jj, tb, i) ==
  IF points[i] = points[jj] THEN tb
  ELSE <<Mul(tb[1], points[i]), Mul(tb[2], Sub(points[i], points[jj]))>>

LagrangeBody_first(points, jj, tb, i) ==
  IF i = jj THEN tb
  ELSE <<Mul(tb[1], points[i]), Mul(tb[2], Sub(points[i], points[1]))>>

\* The body of the loop of lagrange_coefficient(j) for the i-th point, on
\* tb = <<top, bot>>.
LagrangeBody(points, jj, tb, i) ==
  IF i = jj THEN tb
  ELSE <<Mul(tb[1], points[i]), Mul(tb[2], Sub(points[i], points[jj]))>>

\* "for (i, &a_i) in self.points.iter().enumerate()", from first to last.
RECURSIVE LagrangeSteps(_, _, _, _, _)
LagrangeSteps(points, jj, tb, first, last) ==
  IF first > last THEN tb
  ELSE IF first = last THEN LagrangeBody(points, jj, tb, first)
  ELSE LET mid == (first + last) \div 2
           half == LagrangeSteps(points, jj, tb, first, mid)
       IN IF half = half THEN LagrangeSteps(points, jj, half, mid + 1, last)
          ELSE half

\* The loop of lagrange_coefficient(j): <<top, bot>> before bot.inverse().
LagrangeLoop(Fd, points, jj) ==
  LagrangeSteps(points, jj, <<one(Fd), one(Fd)>>, 1, Len(points))

(***************************************************************************)
(* State                                                                   *)
(***************************************************************************)
VARIABLES
  pc,       \* where the program is
  F,        \* the field in use, "GF128" or "GF256"
  a,        \* left operand of the field operation
  b,        \* right operand of the field operation
  prod,     \* a * b
  exp,      \* the frame of exp_two_count_minus_two: count, acc, x and the
            \* number i of loop iterations done
  secret,   \* the secret given to split
  sharing,  \* the Sharing: threshold and count
  rng,      \* the elements split has drawn from the random generator
  shares,   \* what split returned: <<index, value>> pairs
  given,    \* the shares given to reconstruct
  j,        \* reconstruct_zero: the share whose coefficient is computed
  top,      \* lagrange_coefficient: top, while bot is being inverted
  out,      \* reconstruct_zero: the sum so far, and the result at the end
  prev,     \* the result of the reconstruct before this one
  cmd,      \* main: the command line, as structopt parsed it
  stdin,    \* the lines standard input still holds
  nread,    \* how many times read_line has been called
  buf,      \* the line read_line read last
  parsed,   \* combine: the (index, entropy array) pairs parsed so far
  stdout,   \* the lines printed on standard output
  exit      \* the exit status of the process, -1 while it runs

fieldVars == <<a, b, prod>>
shareVars == <<secret, sharing, rng, shares>>
reconVars == <<given, j, top, out, prev>>
mainVars == <<cmd, stdin, nread, buf, parsed, stdout, exit>>
vars == <<pc, F, fieldVars, exp, shareVars, reconVars, mainVars>>

\* A call of exp_two_count_minus_two(count, acc, x): the iterations done, and
\* how many times acc *= acc and acc *= x have run.
ExpCall(count, acc, x) ==
  [count |-> count, acc |-> acc, x |-> x, i |-> 0, squarings |-> 0,
   multiplications |-> 0]
NoExp == ExpCall(0, <<>>, <<>>)

\* A variant that stops the loop at once when x is zero.
ExpDone_on_zero(e) == e.i = e.count - 1 \/ e.x = BPoly_zero(Len(e.x))

\* "for _ in 0..(count - 1)" is over.
ExpDone(e) == e.i = e.count - 1

\* One iteration: acc *= acc; acc *= x.
ExpStep(e) ==
  [e EXCEPT !.acc = ExpBody(e.acc, e.x), !.i = @ + 1, !.squarings = @ + 1,
            !.multiplications = @ + 1]

\* After the loop: acc *= acc, and acc is returned.
ExpReturn(e) == [e EXCEPT !.acc = ExpTail(e.acc), !.squarings = @ + 1]
NoSharing == [threshold |-> 0, count |-> 0]

NoField == a = <<>> /\ b = <<>> /\ prod = <<>>
NoShares == secret = <<>> /\ sharing = NoSharing /\ rng = <<>> /\ shares = <<>>
NoReconstruct == given = <<>> /\ j = 0 /\ top = <<>> /\ out = <<>> /\ prev = <<>>
NoCmd == [name |-> "", threshold |-> 0, count |-> 0]
NoPhrase == [valid |-> FALSE, entropy |-> <<>>]
NoLine ==
  [utf8 |-> TRUE, whole |-> NoPhrase, index |-> <<>>, space |-> FALSE,
   phrase |-> NoPhrase]
NoMain ==
  /\ cmd = NoCmd
  /\ stdin = <<>>
  /\ nread = 0
  /\ buf = NoLine
  /\ parsed = <<>>
  /\ stdout = <<>>
  /\ exit = -1

(***************************************************************************)
(* Inputs                                                                  *)
(***************************************************************************)
\* Most shares a split makes, in each field.
MaxCount128 == 3
MaxCount256 == 2
MaxCount(Fd) == IF Fd = "GF128" THEN MaxCount128 ELSE MaxCount256

\* Field elements the operations are tried on: limb i (from 1) of each.
ElementLimb(name, i, N) ==
  CASE name = "zero" -> {}
    [] name = "one" -> IF i = 1 THEN {0} ELSE {}
    [] name = "z" -> IF i = 1 THEN {1} ELSE {}
    [] name = "three" -> IF i = 1 THEN {0, 1} ELSE {}
    [] name = "top" -> IF i = N THEN {LimbBits - 1} ELSE {}
    [] name = "ones" -> 0..(LimbBits - 1)
    [] name = "mix" -> {i, 7 * i, 31 + i, LimbBits - 1 - i, LimbBits - 1}

ElementNames == {"zero", "one", "z", "three", "top", "ones", "mix"}

Element(Fd, name) ==
  Limbs([i \in 1..FieldLimbs(Fd) |-> ElementLimb(name, i, FieldLimbs(Fd))])

Elements(Fd) == {Element(Fd, name) : name \in ElementNames}

\* Byte strings: byte k (from 1) of the string with the given seed.
Bytes(seed, len) == [k \in 1..len |-> (seed + 37 * k) % 256]

\* The secrets split is tried on: from 16 or 32 bytes of entropy.
Secrets(Fd) == {from_bytes(Bytes(171, 8 * FieldLimbs(Fd)))}

\* The random generators split is tried with, each named by its seed.
Seeds == {90, 201}

\* F::random(rng): the n-th element the generator of this seed gives, its
\* fill_bytes giving the byte string of seed + n.
Random(Fd, seed, n) == from_bytes(Bytes(seed + n, 8 * FieldLimbs(Fd)))

\* The elements Polynomial::random draws for a polynomial of this degree.
Drawn(Fd, seed, degree) == [n \in 1..degree |-> Random(Fd, seed, n)]

\* Shares of any origin: the n-th has index 127 * (n - 1) % 256, that is
\* 0, 127, 254, ...
AnyShares(Fd) ==
  {[n \in 1..MaxCount(Fd) |->
      <<(127 * (n - 1)) % 256, Random(Fd, seed, n)>>] : seed \in {33}}

(***************************************************************************)
(* Field operations: a * b and a.inverse()                                 *)
(***************************************************************************)
InitField ==
  /\ pc = "field"
  /\ F \in Fields
  /\ a \in Elements(F)
  /\ b = zero(F)
  /\ prod = zero(F)
  /\ exp = NoExp
  /\ NoShares
  /\ NoReconstruct
  /\ NoMain

\* a * b for any b.
FieldMul ==
  /\ pc = "field"
  /\ \E y \in Elements(F) :
       /\ b' = y
       /\ prod' = Mul(a, y)
  /\ pc' = "mul"
  /\ UNCHANGED <<F, a, exp, shareVars, reconVars, mainVars>>

\* a.inverse(): exp_two_count_minus_two(128 or 256, Self::one(), self).
Inverse ==
  /\ pc = "field"
  /\ exp' = ExpCall(ExpCount(F), one(F), a)
  /\ pc' = "inverse"
  /\ UNCHANGED <<F, fieldVars, shareVars, reconVars, mainVars>>

\* One iteration of "for _ in 0..(count - 1)".
ExpIter ==
  /\ pc \in {"inverse", "coefficient"}
  /\ ~ExpDone(exp)
  /\ exp' = ExpStep(exp)
  /\ UNCHANGED <<pc, F, fieldVars, shareVars, reconVars, mainVars>>

\* The loop is over: the last squaring, and the inverse is returned; the
\* caller multiplies it by a (a * a.inverse()).
InverseReturn ==
  /\ pc = "inverse"
  /\ ExpDone(exp)
  /\ exp' = ExpReturn(exp)
  /\ b' = exp'.acc
  /\ prod' = Mul(a, exp'.acc)
  /\ pc' = "inverted"
  /\ UNCHANGED <<F, a, shareVars, reconVars, mainVars>>

NextField == FieldMul \/ Inverse \/ ExpIter \/ InverseReturn

SpecField == InitField /\ [][NextField]_vars

(***************************************************************************)
(* split, then reconstruct                                                 *)
(***************************************************************************)
\* The Sharing values Sharing::new accepts: 0 < threshold <= count.
Sharings(Fd) ==
  {sh \in [threshold : 1..MaxCount(Fd), count : 1..MaxCount(Fd)] :
     sh.threshold <= sh.count}

InitShare ==
  /\ pc = "sharing"
  /\ F \in Fields
  /\ secret \in Secrets(F)
  /\ sharing \in Sharings(F)
  /\ rng = <<>>
  /\ shares = <<>>
  /\ exp = NoExp
  /\ NoField
  /\ NoReconstruct
  /\ NoMain

\* lagrange::split(rng, secret, sharing)
Split ==
  /\ pc = "sharing"
  /\ \E seed \in Seeds :
       /\ rng' = Drawn(F, seed, Degree_u8(sharing.threshold))
       /\ shares' = split(F, rng', secret, sharing.threshold, sharing.count)
  /\ pc' = "shares"
  /\ UNCHANGED <<F, fieldVars, exp, secret, sharing, reconVars, mainVars>>

\* The elements of list at the positions in S, in the order of list.
RECURSIVE SubList(_, _)
SubList(list, S) ==
  IF list = <<>> THEN <<>>
  ELSE LET rest == SubList(SubSeq(list, 1, Len(list) - 1), S)
       IN IF Len(list) \in S THEN Append(rest, list[Len(list)]) ELSE rest

\* The lists of at least least of the shares, in the order of split.
SubLists(list, least) ==
  {SubList(list, S) :
     S \in {T \in SUBSET (1..Len(list)) : Cardinality(T) >= least}}

\* lagrange_coefficient(jj) up to bot.inverse(): the loop, then the call of
\* exp_two_count_minus_two(128 or 256, Self::one(), bot).
Coefficient(Fd, list, jj) ==
  LET tb == LagrangeLoop(Fd, Points(Fd, list), jj)
  IN /\ j' = jj
     /\ top' = tb[1]
     /\ exp' = ExpCall(ExpCount(Fd), one(Fd), tb[2])

\* lagrange::reconstruct(list), to the first bot.inverse().
Reconstruct(Fd, list) ==
  /\ given' = list
  /\ out' = zero(Fd)
  /\ Coefficient(Fd, list, 1)
  /\ pc' = "coefficient"

\* Any threshold or more of the shares split returned are given.
ReconstructShares ==
  /\ pc = "shares"
  /\ \E list \in SubLists(shares, sharing.threshold) : Reconstruct(F, list)
  /\ UNCHANGED <<F, fieldVars, shareVars, prev, mainVars>>

\* bot.inverse() returns: the coefficient is top * bot.inverse(), and
\* out += lagrange_coefficient(j) * f_j; then the next coefficient, or the
\* result.
CoefficientReturn ==
  /\ pc = "coefficient"
  /\ ExpDone(exp)
  /\ out' = Add(out, Mul(Mul(top, ExpReturn(exp).acc), Heights(given)[j]))
  /\ IF j < Len(given)
     THEN /\ Coefficient(F, given, j + 1)
          /\ pc' = pc
     ELSE /\ j' = 0
          /\ top' = <<>>
          /\ exp' = NoExp
          /\ pc' = "reconstructed"
  /\ UNCHANGED <<F, fieldVars, shareVars, given, prev, mainVars>>

NextShare == Split \/ ReconstructShares \/ ExpIter \/ CoefficientReturn

SpecShare == InitShare /\ [][NextShare]_vars

(***************************************************************************)
(* reconstruct on a list of shares, then on the same shares reordered      *)
(***************************************************************************)
InitOrder ==
  /\ pc = "shares"
  /\ F \in Fields
  /\ secret = <<>>
  /\ sharing = NoSharing
  /\ rng = <<>>
  /\ shares \in AnyShares(F)
  /\ exp = NoExp
  /\ NoField
  /\ NoReconstruct
  /\ NoMain

\* Two or more of the shares are given.
ReconstructList ==
  /\ pc = "shares"
  /\ \E list \in SubLists(shares, 2) : Reconstruct(F, list)
  /\ UNCHANGED <<F, fieldVars, shareVars, prev, mainVars>>

\* The same shares are given again, in another order.
ReconstructReordered ==
  /\ pc = "reconstructed"
  /\ prev = <<>>
  /\ prev' = out
  /\ \E p \in Permutations(1..Len(given)) :
       /\ \E n \in 1..Len(given) : p[n] # n
       /\ Reconstruct(F, [n \in 1..Len(given) |-> given[p[n]]])
  /\ UNCHANGED <<F, fieldVars, shareVars, mainVars>>

NextOrder ==
  ReconstructList \/ ReconstructReordered \/ ExpIter \/ CoefficientReturn

SpecOrder == InitOrder /\ [][NextOrder]_vars

(***************************************************************************)
(* main: the command line                                                  *)
(***************************************************************************)
\* Largest threshold and count tried on the command line, and most lines
\* standard input holds.
MaxArg == 2
MaxLines == 2

\* A mnemonic is known by the entropy it spells: bip39 has mnemonics for 16,
\* 20, 24, 28 and 32 bytes of entropy (12 to 24 words).
EntropyLengths == {16, 20, 24, 28, 32}
Phrase(len, seed) == [valid |-> TRUE, entropy |-> Bytes(seed, len)]
InvalidPhrase == NoPhrase

\* A line of standard input: whether it is UTF-8, the mnemonic the whole
\* line spells, the characters before its first space, whether it has a
\* space, and the mnemonic the text after the first space spells.
Line(whole, index, space, phrase) ==
  [utf8 |-> TRUE, whole |-> whole, index |-> index, space |-> space,
   phrase |-> phrase]
NotUtf8 ==
  [utf8 |-> FALSE, whole |-> InvalidPhrase, index |-> <<>>, space |-> FALSE,
   phrase |-> InvalidPhrase]
\* What read_line leaves in buf at the end of input: nothing.
EofLine == NoLine

\* A seed phrase, and a share as split prints it: "index mnemonic".
SeedLine(phrase) == Line(phrase, <<"w">>, phrase.valid, InvalidPhrase)
IndexedLine(index, phrase) == Line(InvalidPhrase, index, TRUE, phrase)

SeedLines ==
  {SeedLine(Phrase(len, 171)) : len \in EntropyLengths}
    \cup {SeedLine(InvalidPhrase), NotUtf8}

ShareLines ==
  {IndexedLine(<<"1">>, Phrase(16, 11)), IndexedLine(<<"2">>, Phrase(16, 12)),
   IndexedLine(<<"1">>, Phrase(16, 15)),
   IndexedLine(<<"1">>, Phrase(32, 13)), IndexedLine(<<"2">>, Phrase(20, 14)),
   IndexedLine(<<"0">>, Phrase(16, 11)), IndexedLine(<<"1">>, InvalidPhrase),
   Line(InvalidPhrase, <<"1">>, FALSE, InvalidPhrase), NotUtf8,
   IndexedLine(<<"x">>, Phrase(16, 11)),
   IndexedLine(<<"2", "5", "6">>, Phrase(16, 11)),
   IndexedLine(<<"U+00E9">>, Phrase(16, 11)),
   IndexedLine(<<"U+00E9", "1">>, Phrase(16, 11))}

Commands ==
  [name : {"split"}, threshold : 0..MaxArg, count : 0..MaxArg]
    \cup [name : {"combine"}, threshold : 0..MaxArg, count : {0}]
    \cup [name : {"random"}, threshold : {0}, count : {0}]

\* What standard input holds: for split nothing or one line; for combine up
\* to MaxLines lines, those past the threshold-th being the second share.
Stdins(c) ==
  IF c.name = "split" THEN {<<>>} \cup {<<l>> : l \in SeedLines}
  ELSE IF c.name = "combine"
  THEN {s \in UNION {[1..k -> ShareLines] : k \in 0..MaxLines} :
          \A n \in 1..Len(s) :
            n > c.threshold => s[n] = IndexedLine(<<"2">>, Phrase(16, 12))}
  ELSE {<<>>}

\* The lines of standard output.
OutLine(kind, msg, index, entropy) ==
  [kind |-> kind, msg |-> msg, index |-> index, entropy |-> entropy]
PromptLine == OutLine("text", "Seed Phrase:", 0, <<>>)
ReconstructedLine == OutLine("text", "Reconstructed:", 0, <<>>)
ErrorLine(e) == OutLine("error: ", e, 0, <<>>)
MnemonicLine(entropy) == OutLine("mnemonic", "", 0, entropy)
ShareLine(index, entropy) == OutLine("share", "", index, entropy)

\* bip39::Mnemonic::from_entropy is Ok for these lengths only.
from_entropy_ok(entropy) == Len(entropy) \in EntropyLengths

\* Mnemonic::to_entropy_array: 33 bytes, and how many of them are entropy.
to_entropy_array(phrase) ==
  <<[k \in 1..33 |-> IF k <= Len(phrase.entropy) THEN phrase.entropy[k] ELSE 0],
    Len(phrase.entropy)>>

\* let mut data = [0u8; width]; data[..size].copy_from_slice(&arr[..size])
Data(arr, size, width) == [k \in 1..width |-> IF k <= size THEN arr[k] ELSE 0]

\* str::parse::<u8>: an optional +, then decimal digits, at most 255; -1
\* stands for Err.
Digits == <<"0", "1", "2", "3", "4", "5", "6", "7", "8", "9">>

RECURSIVE Decimal(_)
Decimal(chars) ==
  IF chars = <<>> THEN 0
  ELSE LET init == Decimal(SubSeq(chars, 1, Len(chars) - 1))
           c == chars[Len(chars)]
       IN IF init = -1 \/ ~(\E d \in 1..10 : Digits[d] = c) THEN -1
          ELSE LET v == 10 * init + (CHOOSE d \in 1..10 : Digits[d] = c) - 1
               IN IF v > 255 THEN -1 ELSE v

parse_u8(chars) ==
  LET digits == IF chars # <<>> /\ chars[1] = "+" THEN Tail(chars) ELSE chars
  IN IF digits = <<>> THEN -1 ELSE Decimal(digits)

\* parse_indexed_mnemonic: err is "" for Ok((index - 1, mnemonic)).
Parsed(err, index, mnemonic) ==
  [err |-> err, index |-> index, mnemonic |-> mnemonic]

\* A character is a string naming it; these two take 2 and 3 bytes in
\* UTF-8, every other character here takes 1.
Utf8Len(c) == IF c = "U+00E9" THEN 2 ELSE IF c = "U+20AC" THEN 3 ELSE 1

RECURSIVE ByteLen(_)
ByteLen(chars) ==
  IF chars = <<>> THEN 0
  ELSE ByteLen(SubSeq(chars, 1, Len(chars) - 1)) + Utf8Len(chars[Len(chars)])

\* str::is_char_boundary for a byte index at most the length of chars.
is_char_boundary(chars, at) ==
  \E k \in 0..Len(chars) : ByteLen(SubSeq(chars, 1, k)) = at

\* &s[..at] where at is a character boundary.
SliceTo(chars, at) ==
  SubSeq(chars, 1, CHOOSE k \in 0..Len(chars) :
                     ByteLen(SubSeq(chars, 1, k)) = at)

\* s.chars().position(|c| c == ' '): the number of characters before the
\* first space.
SpacePosition(s) == Len(s.index)

\* parse_indexed_mnemonic.  The position of the space counts characters and
\* the slices s[..space_position] and s[space_position + 1..] count bytes:
\* a slice that is not at a character boundary panics (err is "panic").
parse_indexed_mnemonic(s) ==
  IF ~s.space THEN Parsed("invalid share format", 0, InvalidPhrase)
  ELSE LET space_position == SpacePosition(s)
           text == SliceTo(s.index, space_position)
       IN IF ~is_char_boundary(s.index, space_position)
          THEN Parsed("panic", 0, InvalidPhrase)
          ELSE IF parse_u8(text) = -1
          THEN Parsed("ParseIntError", 0, InvalidPhrase)
          ELSE IF parse_u8(text) < 1
          THEN Parsed("share index must be >= 1", 0, InvalidPhrase)
          ELSE IF space_position < ByteLen(s.index)
          THEN IF is_char_boundary(s.index, space_position + 1)
               THEN Parsed("bip39::Error", 0, InvalidPhrase)
               ELSE Parsed("panic", 0, InvalidPhrase)
          ELSE IF ~s.phrase.valid
          THEN Parsed("bip39::Error", 0, InvalidPhrase)
          ELSE Parsed("", parse_u8(text) - 1, s.phrase)

\* Sharing::new: its debug_assert!.
Sharing_new_assert(threshold, count) == threshold > 0 /\ threshold <= count

\* A variant that never finds the sizes inconsistent.
InconsistentSizes_ignored(list, size) == FALSE

\* combine: !parsed.iter().all(|(_, (_, size2))| *size2 == size)
InconsistentSizes(list, size) ==
  ~(\A n \in 1..Len(list) : list[n][2][2] = size)

\* main: "if let Err(e) = res { println!("error: {}", e) }", and main returns.
Fail(e) ==
  /\ stdout' = Append(stdout, ErrorLine(e))
  /\ exit' = 0
  /\ pc' = "done"

\* A panic: the message goes to standard error, the exit status is 101.
Panic ==
  /\ stdout' = stdout
  /\ exit' = 101
  /\ pc' = "done"

InitMain ==
  /\ pc = "main"
  /\ F = ""
  /\ cmd \in Commands
  /\ stdin \in Stdins(cmd)
  /\ nread = 0
  /\ buf = NoLine
  /\ parsed = <<>>
  /\ stdout = <<>>
  /\ exit = -1
  /\ exp = NoExp
  /\ NoField
  /\ NoShares
  /\ NoReconstruct

\* random(): the mnemonic of 16 bytes from OsRng.
MainRandom ==
  /\ pc = "main"
  /\ cmd.name = "random"
  /\ \E seed \in Seeds : stdout' = Append(stdout, MnemonicLine(Bytes(seed, 16)))
  /\ exit' = 0
  /\ pc' = "done"
  /\ UNCHANGED <<F, fieldVars, exp, shareVars, reconVars, cmd, stdin, nread,
                 buf, parsed>>

\* split(threshold, count) up to read_line.  Sharing::new panics on a
\* threshold of 0 where debug assertions are compiled in, and returns the
\* Sharing where they are not.
SplitStart ==
  /\ pc = "main"
  /\ cmd.name = "split"
  /\ IF cmd.count <= 0
     THEN Fail("count must be at least 1") /\ UNCHANGED sharing
     ELSE IF cmd.threshold > cmd.count
     THEN Fail("threshold must be <= count") /\ UNCHANGED sharing
     ELSE \/ /\ ~Sharing_new_assert(cmd.threshold, cmd.count)
             /\ Panic
             /\ UNCHANGED sharing
          \/ /\ sharing' = [threshold |-> cmd.threshold, count |-> cmd.count]
             /\ stdout' = Append(stdout, PromptLine)
             /\ pc' = "split_read"
             /\ UNCHANGED exit
  /\ UNCHANGED <<F, fieldVars, exp, secret, rng, shares, reconVars, cmd,
                 stdin, nread, buf, parsed>>

\* continue_split_128 / continue_split_256: the secret from the bytes,
\* lagrange::split, and a line "index + 1, mnemonic" per share.  The
\* threshold - 1 of lagrange::split on a threshold of 0 panics where overflow
\* checks are compiled in and wraps to 255 where they are not.
continue_split(Fd, data) ==
  \E seed \in Seeds, overflow_checks \in BOOLEAN :
    IF sharing.threshold = 0 /\ overflow_checks
    THEN Panic /\ UNCHANGED <<F, secret, rng, shares>>
    ELSE /\ F' = Fd
         /\ secret' = from_bytes(data)
         /\ rng' = Drawn(Fd, seed, Degree_u8(sharing.threshold))
         /\ shares' = split(Fd, rng', from_bytes(data), sharing.threshold,
                            sharing.count)
         /\ stdout' = stdout \o [n \in 1..Len(shares') |->
                                   ShareLine(shares'[n][1] + 1,
                                             into_bytes(shares'[n][2]))]
         /\ exit' = 0
         /\ pc' = "done"

\* split from read_line on: the mnemonic, its entropy, the field by the
\* entropy's length.  copy_from_slice panics unless the lengths agree.
SplitRead ==
  /\ pc = "split_read"
  /\ nread' = nread + 1
  /\ stdin' = IF stdin = <<>> THEN <<>> ELSE Tail(stdin)
  /\ buf' = IF stdin = <<>> THEN EofLine ELSE Head(stdin)
  /\ LET entropy == buf'.whole.entropy
     IN IF ~buf'.utf8
        THEN Fail("io::Error") /\ UNCHANGED <<F, secret, rng, shares>>
        ELSE IF ~buf'.whole.valid
        THEN Fail("bip39::Error") /\ UNCHANGED <<F, secret, rng, shares>>
        ELSE IF Len(entropy) <= 16
        THEN continue_split("GF128", Data(entropy, Len(entropy), 16))
        ELSE IF Len(entropy) <= 32
        THEN IF Len(entropy) # 32
             THEN Panic /\ UNCHANGED <<F, secret, rng, shares>>
             ELSE continue_split("GF256", Data(entropy, 32, 32))
        ELSE Fail("excessive seed length")
             /\ UNCHANGED <<F, secret, rng, shares>>
  /\ UNCHANGED <<fieldVars, exp, sharing, reconVars, cmd, parsed>>

\* combine(threshold) up to the loop.
CombineStart ==
  /\ pc = "main"
  /\ cmd.name = "combine"
  /\ IF cmd.threshold < 1
     THEN Fail("threshold must be at least 1")
     ELSE /\ pc' = "combine_read"
          /\ UNCHANGED <<stdout, exit>>
  /\ UNCHANGED <<F, fieldVars, exp, shareVars, reconVars, cmd, stdin, nread,
                 buf, parsed>>

\* One iteration of "for _ in 0..threshold": read_line,
\* parse_indexed_mnemonic, parsed.push.
CombineRead ==
  /\ pc = "combine_read"
  /\ nread' = nread + 1
  /\ stdin' = IF stdin = <<>> THEN <<>> ELSE Tail(stdin)
  /\ buf' = IF stdin = <<>> THEN EofLine ELSE Head(stdin)
  /\ LET res == parse_indexed_mnemonic(buf')
     IN IF ~buf'.utf8 THEN Fail("io::Error") /\ UNCHANGED parsed
        ELSE IF res.err = "panic" THEN Panic /\ UNCHANGED parsed
        ELSE IF res.err # "" THEN Fail(res.err) /\ UNCHANGED parsed
        ELSE /\ parsed' =
                  Append(parsed, <<res.index, to_entropy_array(res.mnemonic)>>)
             /\ pc' = IF Len(parsed) + 1 = cmd.threshold
                      THEN "combine_parsed" ELSE pc
             /\ UNCHANGED <<stdout, exit>>
  /\ UNCHANGED <<F, fieldVars, exp, shareVars, reconVars, cmd>>

\* The shares as field elements, and lagrange::reconstruct to its first
\* inversion.
combine_shares(Fd, width, size) ==
  /\ F' = Fd
  /\ Reconstruct(Fd, [n \in 1..Len(parsed) |->
                        <<parsed[n][1],
                          from_bytes(Data(parsed[n][2][1], size, width))>>])
  /\ UNCHANGED <<stdout, exit>>

\* combine after the loop: the sizes are compared and the field chosen.
CombineShares ==
  /\ pc = "combine_parsed"
  /\ LET size == parsed[1][2][2]
         stop == UNCHANGED <<F, exp, given, j, top, out>>
     IN IF InconsistentSizes(parsed, size)
        THEN Fail("seed phrases have inconsistent sizes") /\ stop
        ELSE IF size <= 16 THEN combine_shares("GF128", 16, size)
        ELSE IF size <= 32 THEN combine_shares("GF256", 32, size)
        ELSE Fail("excessive seed length") /\ stop
  /\ UNCHANGED <<fieldVars, shareVars, prev, cmd, stdin, nread, buf, parsed>>

\* lagrange::reconstruct has returned: its bytes, their mnemonic, and
\* println!("Reconstructed:\n{}", mnemonic).
CombinePrint ==
  /\ pc = "reconstructed"
  /\ cmd.name = "combine"
  /\ IF from_entropy_ok(into_bytes(out))
     THEN /\ stdout' = stdout \o <<ReconstructedLine,
                                   MnemonicLine(into_bytes(out))>>
          /\ exit' = 0
          /\ pc' = "done"
     ELSE Panic
  /\ UNCHANGED <<F, fieldVars, exp, shareVars, reconVars, cmd, stdin, nread,
                 buf, parsed>>

NextMain ==
  \/ MainRandom
  \/ SplitStart
  \/ SplitRead
  \/ CombineStart
  \/ CombineRead
  \/ CombineShares
  \/ ExpIter
  \/ CoefficientReturn
  \/ CombinePrint

SpecMain == InitMain /\ [][NextMain]_vars

(***************************************************************************)
(* The product in GF(2)[z] modulo the field polynomial, from the           *)
(* definition: a polynomial is the set of the exponents of its terms.      *)
(***************************************************************************)
Exponents(p) ==
  UNION {{LimbBits * (i - 1) + e : e \in p[i]} : i \in 1..Len(p)}

Degree(Fd) == LimbBits * FieldLimbs(Fd)

\* z^Degree is congruent to the sum of these powers of z.
ModulusTail(Fd) == IF Fd = "GF128" THEN {7, 2, 1, 0} ELSE {10, 5, 2, 0}

\* The term z^n is in A * B iff an odd number of pairs i + j = n has z^i in
\* A and z^j in B.
PolyProduct(A, B, m) ==
  {n \in 0..(2 * m - 2) : Cardinality({i \in A : (n - i) \in B}) % 2 = 1}

\* Every term z^n with n >= m replaced by z^(n - m) * (the tail).
PolyFold(P, m, tail) ==
  {e \in 0..(2 * m - 2) :
     ((IF e \in P /\ e < m THEN 1 ELSE 0)
        + Cardinality({n \in P : n >= m /\ (e - (n - m)) \in tail})) % 2 = 1}

RECURSIVE PolyMod(_, _, _)
PolyMod(P, m, tail) ==
  IF \A e \in P : e < m THEN P ELSE PolyMod(PolyFold(P, m, tail), m, tail)

PolyLimbs(P, N) ==
  Limbs([i \in 1..N |->
           {e - LimbBits * (i - 1) :
              e \in P \cap ((LimbBits * (i - 1))..(LimbBits * i - 1))}])

ReferenceMul(x, y) ==
  LET Fd == FieldOf(x)
  IN PolyLimbs(PolyMod(PolyProduct(Exponents(x), Exponents(y), Degree(Fd)),
                       Degree(Fd), ModulusTail(Fd)),
               FieldLimbs(Fd))

(***************************************************************************)
(* Claims                                                                  *)
(***************************************************************************)
\* C6: in each field, a * inverse(a) = one() for every a other than zero,
\* inverse(a) being what exp_two_count_minus_two returns for count = 128
\* (GF128) or 256 (GF256), acc = one() and x = a.
C6_MulInverseIsOne ==
  (pc = "inverted" /\ a # zero(F)) => (prod = one(F))

\* An inverse of an element with bits in every limb has been returned.
C6_Witness ==
  /\ pc = "inverted"
  /\ a = Element(F, "mix")
  /\ b # a
  /\ prod = one(F)

\* C7: a * b, computed bit by bit by BPoly::mul and folded by reduce, is the
\* product of the polynomials a and b modulo z^128 + z^7 + z^2 + z + 1
\* (GF128) or z^256 + z^10 + z^5 + z^2 + 1 (GF256); in GF128,
\* z * z^127 = limbs {0x87, 0}.
C7_MulIsReference ==
  pc = "mul" =>
    /\ prod = ReferenceMul(a, b)
    /\ (F = "GF128" /\ a = Element(F, "z") /\ b = Element(F, "top"))
         => prod = <<{0, 1, 2, 7}, {}>>

\* A product whose upper half reaches the topmost bits, so that the fold
\* of reduce pushes bits past the degree again.
C7_Witness ==
  /\ pc = "mul"
  /\ a = Element(F, "ones")
  /\ b = Element(F, "top")
  /\ prod = ReferenceMul(a, b)
  /\ prod # zero(F)

\* C1: reconstruct, given any threshold of the shares split(s, (T, N))
\* returned, returns s: in GF128 and GF256, for every 1 <= T <= N.
C1_Recovery ==
  (pc = "reconstructed" /\ Len(given) = sharing.threshold) => out = secret

\* Two of three shares of a polynomial of degree 1 have given the secret.
C1_Witness ==
  /\ pc = "reconstructed"
  /\ sharing = [threshold |-> 2, count |-> 3]
  /\ Len(given) = 2
  /\ given[1] = shares[2]
  /\ given[2] = shares[3]
  /\ out = secret

\* C2: reconstruct, given more than threshold of the shares one split
\* returned, returns the secret too.
C2_Redundancy ==
  (pc = "reconstructed" /\ Len(given) > sharing.threshold) => out = secret

\* Three shares of a polynomial of degree 1 have given the secret.
C2_Witness ==
  /\ pc = "reconstructed"
  /\ sharing = [threshold |-> 2, count |-> 3]
  /\ given = shares
  /\ shares[1][2] # shares[2][2]
  /\ out = secret

\* C8: reconstruct returns the same element for a list of shares with
\* distinct indices and for the same shares in any other order.
C8_OrderIndependent ==
  (pc = "reconstructed" /\ prev # <<>>) => out = prev

\* Three shares, given again with the last one first.
C8_Witness ==
  /\ pc = "reconstructed"
  /\ prev # <<>>
  /\ Len(given) = 3
  /\ given[1] = shares[3]
  /\ out = prev
  /\ out # zero(F)

\* The polynomial sum of coefficients[k] * at^(k - 1), from the definition.
RECURSIVE ReferencePower(_, _)
ReferencePower(x, k) ==
  IF k = 0 THEN one(FieldOf(x)) ELSE ReferenceMul(x, ReferencePower(x, k - 1))

RECURSIVE ReferenceEvaluate(_, _, _)
ReferenceEvaluate(coefficients, at, k) ==
  IF k > Len(coefficients) THEN zero(FieldOf(at))
  ELSE Add(ReferenceMul(coefficients[k], ReferencePower(at, k - 1)),
           ReferenceEvaluate(coefficients, at, k + 1))

\* The field element whose polynomial has the binary digits of v, v < 256.
Injected(Fd, v) ==
  [i \in 1..FieldLimbs(Fd) |->
     IF i = 1 THEN {e \in 0..7 : (v \div (2 ^ e)) % 2 = 1} ELSE {}]

\* C9: split returns exactly count shares, the n-th with stored index n - 1
\* (displayed as n, at most 255) and with the value of the polynomial at the
\* field element injected from n, the polynomial being the secret followed
\* by the threshold - 1 elements drawn; and the points of the indices
\* 0 .. 254 (every count <= 255) are pairwise distinct and none is zero.
C9_SharesInIndexOrder ==
  pc = "shares" =>
    /\ Len(shares) = sharing.count
    /\ Len(rng) = sharing.threshold - 1
    /\ \A n \in 1..Len(shares) :
         /\ shares[n][1] = n - 1
         /\ shares[n][1] + 1 <= 255
         /\ shares[n][2] =
              ReferenceEvaluate(<<secret>> \o rng, Injected(F, n), 1)
    /\ Cardinality({to_field(F, i) : i \in 0..254}) = 255
    /\ zero(F) \notin {to_field(F, i) : i \in 0..254}

\* Three shares of a polynomial of degree 2 have been made.
C9_Witness ==
  /\ pc = "shares"
  /\ sharing = [threshold |-> 3, count |-> 3]
  /\ Len(shares) = 3
  /\ shares[3][1] = 2
  /\ shares[3][2] # shares[1][2]
  /\ shares[3][2] # secret

\* The lines of standard output of one kind.
OutLines(kind) == {n \in 1..Len(stdout) : stdout[n].kind = kind}

\* The run has ended with the output of its command: a mnemonic for random,
\* the prompt and count shares for split, "Reconstructed:" and a mnemonic
\* for combine.
Succeeded ==
  /\ pc = "done"
  /\ CASE cmd.name = "random" -> OutLines("mnemonic") # {}
       [] cmd.name = "split" ->
            /\ cmd.count >= 1
            /\ Cardinality(OutLines("share")) = cmd.count
       [] cmd.name = "combine" ->
            /\ ReconstructedLine \in {stdout[n] : n \in 1..Len(stdout)}
            /\ OutLines("mnemonic") # {}
       [] OTHER -> FALSE

\* C3: a run that ends in an error has printed exactly one line beginning
\* "error: " and has a non-zero exit status; a run with exit status 0 has
\* succeeded.
C3_ErrorsExitNonZero ==
  pc = "done" =>
    \/ /\ Succeeded
       /\ exit = 0
       /\ OutLines("error: ") = {}
    \/ /\ ~Succeeded
       /\ Cardinality(OutLines("error: ")) = 1
       /\ exit # 0

\* The messages of split's argument checks.
InvalidArguments == {"count must be at least 1", "threshold must be <= count"}

\* C4: a Sharing always has 1 <= threshold <= count <= 255, and split with
\* a threshold and a count that violate 1 <= threshold <= count reads no
\* line, makes and prints no share, and ends with only the error of its
\* argument check printed.
C4_SplitRejectsInvalid ==
  /\ sharing # NoSharing =>
       /\ 1 <= sharing.threshold
       /\ sharing.threshold <= sharing.count
       /\ sharing.count <= 255
  /\ (cmd.name = "split"
        /\ ~(1 <= cmd.threshold /\ cmd.threshold <= cmd.count)) =>
       /\ nread = 0
       /\ shares = <<>>
       /\ OutLines("share") = {}
       /\ pc = "done" =>
            \E e \in InvalidArguments : stdout = <<ErrorLine(e)>>

\* The run has ended with no share and no reconstruction printed, and with
\* an error line or a non-zero exit status.
Rejected ==
  /\ pc = "done"
  /\ OutLines("share") = {}
  /\ OutLines("mnemonic") = {}
  /\ OutLines("error: ") # {} \/ exit # 0

\* C5: split on a seed phrase of 16 (or fewer) bytes of entropy shares it in
\* GF128 and on one of 32 bytes in GF256, and is rejected on any other
\* length; combine on shares of one entropy length reconstructs in GF128 for
\* 16 (or fewer) bytes and in GF256 for 32 bytes, and is rejected on any
\* other length.
C5_FieldByEntropyLength ==
  /\ (cmd.name = "split" /\ pc = "done" /\ nread = 1 /\ buf.utf8
        /\ buf.whole.valid) =>
       LET len == Len(buf.whole.entropy)
       IN IF len <= 16 THEN exit = 0 => (F = "GF128" /\ shares # <<>>)
          ELSE IF len = 32 THEN exit = 0 => (F = "GF256" /\ shares # <<>>)
          ELSE Rejected
  /\ (cmd.name = "combine" /\ cmd.threshold >= 1
        /\ Len(parsed) = cmd.threshold
        /\ ~InconsistentSizes(parsed, parsed[1][2][2])
        /\ pc # "combine_parsed") =>
       LET size == parsed[1][2][2]
       IN IF size <= 16 THEN F = "GF128"
          ELSE IF size = 32 THEN F = "GF256"
          ELSE Rejected

\* C10: combine with a threshold of 0 ends with an error and has read no
\* line; combine never reads more than threshold lines, and has read
\* exactly threshold lines once all its shares are parsed; and when the
\* threshold shares parsed do not all have the same entropy length, it goes
\* on to nothing but the error "seed phrases have inconsistent sizes": no
\* field is chosen, nothing is reconstructed, no other line is printed.
C10_CombineSizes ==
  cmd.name = "combine" =>
    /\ cmd.threshold = 0 =>
         /\ nread = 0
         /\ pc = "done" => stdout = <<ErrorLine("threshold must be at least 1")>>
    /\ nread <= cmd.threshold
    /\ pc = "combine_read" => (nread = Len(parsed) /\ nread < cmd.threshold)
    /\ (cmd.threshold >= 1 /\ Len(parsed) = cmd.threshold) =>
         /\ nread = cmd.threshold
         /\ (\E n \in 1..Len(parsed) : parsed[n][2][2] # parsed[1][2][2]) =>
              /\ F = ""
              /\ given = <<>>
              /\ \/ pc = "combine_parsed" /\ stdout = <<>>
                 \/ /\ pc = "done"
                    /\ stdout =
                         <<ErrorLine("seed phrases have inconsistent sizes")>>

\* combine 2 on a 16-byte share and a 32-byte share has ended with the
\* error, both lines read.
C10_Witness ==
  /\ cmd.name = "combine"
  /\ cmd.threshold = 2
  /\ pc = "done"
  /\ nread = 2
  /\ Len(parsed) = 2
  /\ parsed[1][2][2] = 16
  /\ parsed[2][2][2] = 32
  /\ stdout = <<ErrorLine("seed phrases have inconsistent sizes")>>

\* The text is a decimal numeral of a number in 1 .. 255.
DecimalIndex(chars) ==
  /\ chars # <<>>
  /\ \A n \in 1..Len(chars) : \E d \in 1..10 : Digits[d] = chars[n]
  /\ Decimal(chars) \in 1..255

\* A share line with no space, or whose text before the first space is not
\* the numeral of an index in 1 .. 255.
MalformedShareLine(s) == ~s.space \/ ~DecimalIndex(s.index)

\* The messages of parse_indexed_mnemonic for such a line.
MalformedMessages ==
  {"invalid share format", "ParseIntError", "share index must be >= 1"}

\* C11: when the line combine has just read is malformed (no space, or the
\* text before the first space is not a decimal index in 1 .. 255, be it
\* "0", not a number or not ASCII), combine has ended at that line with
\* only an "error: " line of parse_indexed_mnemonic printed, without a
\* crash and with nothing reconstructed; and a well-formed line with
\* displayed index k is stored with index k - 1.
C11_MalformedShareLine ==
  (cmd.name = "combine" /\ nread >= 1 /\ buf.utf8) =>
    IF MalformedShareLine(buf)
    THEN /\ pc = "done"
         /\ exit # 101
         /\ Len(parsed) = nread - 1
         /\ given = <<>>
         /\ \E e \in MalformedMessages : stdout = <<ErrorLine(e)>>
    ELSE buf.phrase.valid =>
           /\ Len(parsed) = nread
           /\ parsed[nread][1] = Decimal(buf.index) - 1

\* m: 128 for GF128 and 256 for GF256.
InversionDegree == IF F = "GF128" THEN 128 ELSE 256

\* C12: an inversion in progress has the count of its field, and after i
\* iterations has squared i times and multiplied by x i times; an inversion
\* that has returned has made exactly m - 1 iterations, m squarings and
\* m - 1 multiplications by x, 2m - 1 field multiplications in all, whatever
\* the element inverted (zero included).
C12_FixedOperationCount ==
  /\ pc \in {"inverse", "coefficient"} =>
       /\ exp.count = InversionDegree
       /\ exp.i <= exp.count - 1
       /\ exp.squarings = exp.i
       /\ exp.multiplications = exp.i
  /\ pc = "inverted" =>
       /\ exp.i = InversionDegree - 1
       /\ exp.squarings = InversionDegree
       /\ exp.multiplications = InversionDegree - 1
       /\ exp.squarings + exp.multiplications = 2 * InversionDegree - 1

\* The inversion of zero in GF256 has returned, after 511 multiplications.
C12_Witness ==
  /\ pc = "inverted"
  /\ F = "GF256"
  /\ a = zero(F)
  /\ exp.x = zero(F)
  /\ exp.squarings + exp.multiplications = 511

\* The n-th share given to reconstruct has the index of another one.
Duplicated(n) ==
  \E k \in 1..Len(given) : k # n /\ given[k][1] = given[n][1]

\* C13: while the coefficient of a share with a duplicated index is
\* computed, the element inverted is zero and stays zero under the
\* iterations; when that inversion returns, the sum of reconstruct is left
\* as it was, whatever the share's value; and combine, once its shares are
\* parsed with one entropy length, ends with "Reconstructed:" and a mnemonic
\* and no error, duplicated indices or not.
C13_DuplicatesUndetected ==
  /\ [](pc = "coefficient" /\ Duplicated(j) =>
          /\ exp.x = zero(F)
          /\ exp.i >= 1 => exp.acc = zero(F))
  /\ [][(pc = "coefficient" /\ Duplicated(j) /\ ExpDone(exp)) =>
          out' = out]_vars
  /\ [](cmd.name = "combine" /\ pc = "done" /\ cmd.threshold >= 1
          /\ Len(parsed) = cmd.threshold
          /\ (\A n \in 1..Len(parsed) : parsed[n][2][2] = parsed[1][2][2]) =>
          /\ exit = 0
          /\ Len(stdout) = 2
          /\ stdout[1] = ReconstructedLine
          /\ stdout[2] = MnemonicLine(into_bytes(out)))

\* combine 2 on two shares of index 1 with different 16-byte values has
\* printed "Reconstructed:" and a mnemonic.
C13_Witness ==
  /\ cmd.name = "combine"
  /\ pc = "done"
  /\ Len(parsed) = 2
  /\ parsed[1][1] = parsed[2][1]
  /\ parsed[1][2] # parsed[2][2]
  /\ parsed[1][2][2] = 16
  /\ parsed[2][2][2] = 16
  /\ stdout = <<ReconstructedLine, MnemonicLine(into_bytes(out))>>
  /\ exit = 0

====
